---- MODULE Spec2Model ----
(***************************************************************************)
(* doc2md: docstring to Markdown converter (src/doc2md.py).                *)
(*                                                                         *)
(* A text line is a sequence of one-character strings, a line sequence is  *)
(* a sequence of lines.  The string methods of Python that the program     *)
(* uses (lstrip, startswith, in, replace, partition, lower) are operators  *)
(* that compute on the characters as Python does.                          *)
(***************************************************************************)
EXTENDS Integers, Sequences, FiniteSets, TLC

\* ------------------------------------------------------------------ bounds
\* longest input line sequence given to _doc2md
MaxLen == 3
\* largest shiftlevel given to _doc2md
MaxShift == 1
\* longest docstring (in lines) given to doc2md
MaxDocLen == 3
\* largest min_level given to doc2md
MaxMinLevel == 3
\* longest argument (in lines, in sections) given to a helper function
MaxArgLen == 3

\* --------------------------------------------------- Python string methods
\* the character U+0060 (grave accent), which a TLA+ string cannot hold
Backtick == "U+0060"

\* characters str.lstrip() removes (tab and space; a line holds no newline)
Whitespace == {" ", "\t"}

\* len(line) - len(line.lstrip())
Indent(s) ==
    IF \A k \in 1..Len(s) : s[k] \in Whitespace
    THEN Len(s)
    ELSE (CHOOSE k \in 1..Len(s) :
              s[k] \notin Whitespace /\ \A j \in 1..(k-1) : s[j] \in Whitespace) - 1

\* s[n:]
DropFirst(s, n) == IF n >= Len(s) THEN <<>> ELSE SubSeq(s, n + 1, Len(s))

\* s.lstrip()
lstrip(s) == DropFirst(s, Indent(s))

\* s.startswith(p)
startswith(s, p) == Len(s) >= Len(p) /\ SubSeq(s, 1, Len(p)) = p

\* p occurs in s at index k
MatchAt(s, p, k) ==
    k + Len(p) - 1 <= Len(s) /\ \A j \in 1..Len(p) : s[k + j - 1] = p[j]

\* index of the first occurrence of p in s at or after index k, 0 if none
find(s, p, k) ==
    LET at == {j \in k..(Len(s) - Len(p) + 1) : MatchAt(s, p, j)}
    IN  IF at = {} THEN 0 ELSE CHOOSE j \in at : \A m \in at : j <= m

\* p in s
contains(s, p) == find(s, p, 1) # 0

RECURSIVE replaceFrom(_, _, _, _)
\* s.replace(old, new) from index k on: non-overlapping occurrences, left to
\* right, the inserted text is not scanned again
replaceFrom(s, old, new, k) ==
    LET j == find(s, old, k)
    IN  IF j = 0 THEN DropFirst(s, k - 1)
        ELSE SubSeq(s, k, j - 1) \o new \o replaceFrom(s, old, new, j + Len(old))

\* s.replace(old, new), old not empty
replace(s, old, new) == replaceFrom(s, old, new, 1)

RECURSIVE countFrom(_, _, _)
\* number of non-overlapping occurrences of p in s from index k on
countFrom(s, p, k) ==
    LET j == find(s, p, k)
    IN  IF j = 0 THEN 0 ELSE 1 + countFrom(s, p, j + Len(p))

\* s.count(p), p not empty
count(s, p) == countFrom(s, p, 1)

\* index of the first " " of s, 0 when there is none
FirstSpace(s) ==
    IF \E k \in 1..Len(s) : s[k] = " "
    THEN CHOOSE k \in 1..Len(s) : s[k] = " " /\ \A j \in 1..(k-1) : s[j] # " "
    ELSE 0

\* s.partition(' '): <<head, separator, tail>>
partition(s) ==
    LET k == FirstSpace(s)
    IN  IF k = 0 THEN <<s, <<>>, <<>>>>
        ELSE <<SubSeq(s, 1, k - 1), <<" ">>, DropFirst(s, k)>>

Upper == <<"A","B","C","D","E","F","G","H","I","J","K","L","M",
           "N","O","P","Q","R","S","T","U","V","W","X","Y","Z">>
Lower == <<"a","b","c","d","e","f","g","h","i","j","k","l","m",
           "n","o","p","q","r","s","t","u","v","w","x","y","z">>

\* c.lower() for one character
lowerChar(c) ==
    IF \E k \in 1..26 : Upper[k] = c
    THEN Lower[CHOOSE k \in 1..26 : Upper[k] = c]
    ELSE c

\* s.lower()
lower(s) == [k \in 1..Len(s) |-> lowerChar(s[k])]

\* s * n
RECURSIVE repeat(_, _)
repeat(s, n) == IF n <= 0 THEN <<>> ELSE s \o repeat(s, n - 1)

\* minimum of a non-empty set of integers
Min(S) == CHOOSE m \in S : \A n \in S : m <= n

\* all sequences over S of length at most n
SeqsUpTo(S, n) == UNION {[1..k -> S] : k \in 0..n}

\* ----------------------------------------------------------------- helpers
\* unindent that takes the minimum over the lines that hold a character other
\* than whitespace
unindent_SkipBlank(lines) ==
    LET nonblank == {k \in 1..Len(lines) : lstrip(lines[k]) # <<>>}
    IN  IF nonblank = {} THEN lines
        ELSE LET indent == Min({Indent(lines[k]) : k \in nonblank})
             IN  [k \in 1..Len(lines) |-> DropFirst(lines[k], indent)]

\* unindent(lines): min() of an empty generator raises ValueError
unindent(lines) ==
    LET nonempty == {k \in 1..Len(lines) : lines[k] # <<>>}
    IN  IF nonempty = {} THEN lines
        ELSE LET indent == Min({Indent(lines[k]) : k \in nonempty})
             IN  [k \in 1..Len(lines) |-> DropFirst(lines[k], indent)]

\* code_block(lines, language)
code_block(lines, language) ==
    <<<<Backtick,Backtick,Backtick>> \o language>> \o lines \o <<<<Backtick,Backtick,Backtick>>>>

\* the test of doctest2md on one (unindented) line
IsPromptLine(line) ==
    \/ startswith(line, <<">",">",">"," ">>)
    \/ startswith(line, <<".",".","."," ">>)
    \/ line \in {<<">",">",">">>, <<".",".",".">>}

\* doctest2md that strips the prompt of every prompt line of any block
doctest2md_StripEach(lines) ==
    LET ls == unindent(lines)
    IN  [k \in 1..Len(ls) |->
            IF IsPromptLine(ls[k]) THEN DropFirst(ls[k], 4) ELSE ls[k]]

\* doctest2md(lines)
doctest2md(lines) ==
    LET ls == unindent(lines)
        is_only_code == \A k \in 1..Len(ls) : IsPromptLine(ls[k])
    IN  IF is_only_code
        THEN [k \in 1..Len(ls) |-> DropFirst(ls[k], 4)]
        ELSE ls

\* language tags
python == <<"p","y","t","h","o","n">>
bash == <<"b","a","s","h">>

\* doc_code_block(lines, language)
doc_code_block(lines, language) ==
    IF language = python
    THEN code_block(doctest2md(lines), language)
    ELSE code_block(lines, language)

\* number of leading "#" of line
HashRun(line) ==
    IF \A k \in 1..Len(line) : line[k] = "#"
    THEN Len(line)
    ELSE (CHOOSE k \in 1..Len(line) :
              line[k] # "#" /\ \A j \in 1..(k-1) : line[j] = "#") - 1

\* is_heading(line): _reg_section = '^#+ ' matches
is_heading(line) ==
    /\ HashRun(line) >= 1
    /\ Len(line) > HashRun(line)
    /\ line[HashRun(line) + 1] = " "

\* outcome of a failed assert
AssertionError == <<"raise", "AssertionError">>

\* get_heading that strips the title
get_heading_Strip(line) ==
    IF ~is_heading(line) THEN AssertionError
    ELSE LET part == partition(line)
         IN  <<Len(part[1]), lstrip(part[3])>>

\* get_heading(line): <<level, title>>
get_heading(line) ==
    IF ~is_heading(line) THEN AssertionError
    ELSE LET part == partition(line)
         IN  <<Len(part[1]), part[3]>>

\* make_heading(level, title)
make_heading(level, title) ==
    repeat(<<"#">>, IF level > 1 THEN level ELSE 1) \o <<" ">> \o title

\* outcome of raise Exception("Shouldn't be a bigger header")
BiggerHeader == <<"raise", "Exception">>

RECURSIVE find_sections_from_AnyLevel(_, _, _)
\* the loop of find_sections without the test of the level
find_sections_from_AnyLevel(lines, k, sections) ==
    IF k > Len(lines) THEN <<"return", sections>>
    ELSE IF is_heading(lines[k])
         THEN find_sections_from_AnyLevel(lines, k + 1,
                                          Append(sections, get_heading(lines[k])))
         ELSE find_sections_from_AnyLevel(lines, k + 1, sections)

RECURSIVE find_sections_from(_, _, _)
\* the loop of find_sections from line k on, with the sections found so far
find_sections_from(lines, k, sections) ==
    IF k > Len(lines) THEN <<"return", sections>>
    ELSE IF is_heading(lines[k])
         THEN IF ~startswith(lines[k], <<"#","#">>)
              THEN BiggerHeader
              ELSE find_sections_from(lines, k + 1,
                                      Append(sections, get_heading(lines[k])))
         ELSE find_sections_from(lines, k + 1, sections)

\* find_sections(lines): <<"return", sections>> or <<"raise", ...>>
find_sections(lines) == find_sections_from(lines, 1, <<>>)

\* make_ref that keeps the "?"
make_ref_KeepQuestion(sec) == replace(lower(sec), <<" ">>, <<"-">>)

\* the anchor of make_toc for a title
make_ref(sec) == replace(replace(lower(sec), <<" ">>, <<"-">>), <<"?">>, <<>>)

\* the list item of make_toc for the section <<ind, sec>>
make_item(ind, sec, outer) ==
    repeat(<<" "," "," "," ">>, ind - outer) \o <<"-"," ","[">> \o sec \o <<"]","(","#">> \o make_ref(sec) \o <<")">>

\* make_toc with the level of the first section as outer
make_toc_OuterFirst(sections) ==
    IF sections = <<>> THEN <<>>
    ELSE LET outer == sections[1][1]
         IN  [k \in 1..Len(sections) |->
                 make_item(sections[k][1], sections[k][2], outer)]

\* make_toc(sections)
make_toc(sections) ==
    IF sections = <<>> THEN <<>>
    ELSE LET outer == Min({sections[k][1] : k \in 1..Len(sections)})
         IN  [k \in 1..Len(sections) |->
                 make_item(sections[k][1], sections[k][2], outer)]

\* type_url: the table of <<type name, link>>
type_url == <<
  <<<<"b","o","o","l">>, <<"[","b","o","o","l","]","(","h","t","t","p","s",":","/","/","d","o","c","s",".","p","y","t","h","o","n",".","o","r","g","/","2","/","l","i","b","r","a","r","y","/","s","t","d","t","y","p","e","s",".","h","t","m","l","#","b","o","o","l","e","a","n","-","v","a","l","u","e","s",")">>>>,
  <<<<"s","t","r">>, <<"[","s","t","r","]","(","h","t","t","p","s",":","/","/","d","o","c","s",".","p","y","t","h","o","n",".","o","r","g","/","2","/","l","i","b","r","a","r","y","/","s","t","d","t","y","p","e","s",".","h","t","m","l","#","s","e","q","u","e","n","c","e","-","t","y","p","e","s","-","s","t","r","-","u","n","i","c","o","d","e","-","l","i","s","t","-","t","u","p","l","e","-","b","y","t","e","a","r","r","a","y","-","b","u","f","f","e","r","-","x","r","a","n","g","e",")">>>>,
  <<<<"i","n","t">>, <<"[","i","n","t","]","(","h","t","t","p","s",":","/","/","d","o","c","s",".","p","y","t","h","o","n",".","o","r","g","/","2","/","l","i","b","r","a","r","y","/","s","t","d","t","y","p","e","s",".","h","t","m","l","#","n","u","m","e","r","i","c","-","t","y","p","e","s","-","i","n","t","-","f","l","o","a","t","-","l","o","n","g","-","c","o","m","p","l","e","x",")">>>>,
  <<<<"f","l","o","a","t">>, <<"[","f","l","o","a","t","]","(","h","t","t","p","s",":","/","/","d","o","c","s",".","p","y","t","h","o","n",".","o","r","g","/","2","/","l","i","b","r","a","r","y","/","s","t","d","t","y","p","e","s",".","h","t","m","l","#","n","u","m","e","r","i","c","-","t","y","p","e","s","-","i","n","t","-","f","l","o","a","t","-","l","o","n","g","-","c","o","m","p","l","e","x",")">>>>,
  <<<<"l","i","s","t">>, <<"[","l","i","s","t","]","(","h","t","t","p","s",":","/","/","d","o","c","s",".","p","y","t","h","o","n",".","o","r","g","/","2","/","t","u","t","o","r","i","a","l","/","d","a","t","a","s","t","r","u","c","t","u","r","e","s",".","h","t","m","l","#","m","o","r","e","-","o","n","-","l","i","s","t","s",")">>>>,
  <<<<"E","x","c","e","p","t","i","o","n">>, <<"[","E","x","c","e","p","t","i","o","n","]","(","h","t","t","p","s",":","/","/","d","o","c","s",".","p","y","t","h","o","n",".","o","r","g","/","2","/","t","u","t","o","r","i","a","l","/","e","r","r","o","r","s",".","h","t","m","l",")">>>> >>

RECURSIVE link_types_from(_, _)
\* the loop "for c_type, url in type_url" from table entry k on
link_types_from(line, k) ==
    IF k > Len(type_url) THEN line
    ELSE IF contains(line, type_url[k][1])
         THEN link_types_from(replace(line, type_url[k][1], type_url[k][2]), k + 1)
         ELSE link_types_from(line, k + 1)

\* the three markers and their replacements
param_marker == <<":","p","a","r","a","m">>
throw_marker == <<":","t","h","r","o","w">>
return_marker == <<":","r","e","t","u","r","n">>
param_bullet == <<"-">>
throw_bullet == <<"-"," ","t","h","r","o","w">>
return_bullet == <<"-"," ","r","e","t","u","r","n">>

\* the body of a directive branch: replace the marker, link the types, lstrip
translate(line, marker, bullet) ==
    lstrip(link_types_from(replace(line, marker, bullet), 1))

\* ------------------------------------------------------------------- state
VARIABLES
    pc,         \* position of control
    caller,     \* the function that was called
    lines,      \* the line sequence (of doc2md, then of _doc2md)
    shiftlevel, \* shiftlevel of doc2md and _doc2md
    i,          \* number of lines the loop of _doc2md has consumed
    md,         \* md of _doc2md
    is_code,    \* is_code of _doc2md
    code,       \* code of _doc2md: the accumulator
    language,   \* language of _doc2md
    ret,        \* the value _doc2md returned
    text,       \* doc2md: the lines of the trimmed docstring
    min_level,  \* doc2md: min_level
    toc,        \* doc2md: toc
    more_info,  \* doc2md: more_info
    title,      \* doc2md: title
    sections,   \* doc2md: sections
    level,      \* doc2md: level
    doc,        \* doc2md: md
    call,       \* a helper function called on its own: <<name, arguments>>
    result      \* what the helper function returned

vars == <<pc, caller, lines, shiftlevel, i, md, is_code, code, language, ret,
          text, min_level, toc, more_info, title, sections, level, doc, call, result>>

tvars == <<text, min_level, toc, more_info, title, sections, level, doc, call, result>>

\* value of a variable that holds nothing yet
None == <<"None">>

\* ------------------------------------------------------- the input of _doc2md
\* lines given to _doc2md
TLines == {
    <<>>,
    <<"1">>,
    <<">",">",">"," ","x">>,
    <<" ","$"," ","l","s">>,
    <<"$"," ","l","s">>,
    <<"#","#"," ","A">>,
    <<":","p","a","r","a","m"," ","x",":"," ","a"," ","b","o","o","l"," ","v","a","l","u","e">>,
    <<":","r","e","t","u","r","n",":"," ","a","n"," ","i","n","t">>,
    <<":","t","h","r","o","w"," ","E","x","c","e","p","t","i","o","n">>,
    <<" ",":","p","a","r","a","m"," ","a"," ",":","p","a","r","a","m"," ","b">> }

\* ------------------------------------------------------------------ _doc2md
\* the line the loop of _doc2md is at
line == lines[i + 1]

\* trimmed = line.lstrip()
trimmed == lstrip(line)

\* the loop has a next line
InLoop == pc = "loop" /\ i < Len(lines)

\* is_code and line: code.append(line)
AppendCode ==
    /\ InLoop /\ is_code /\ line # <<>>
    /\ code' = Append(code, line)
    /\ i' = i + 1
    /\ UNCHANGED <<pc, caller, lines, shiftlevel, md, is_code, language, ret>>
    /\ UNCHANGED tvars

\* EndCode with the empty line emitted before the block
EndCode_BlankFirst ==
    /\ InLoop /\ is_code /\ line = <<>>
    /\ is_code' = FALSE
    /\ md' = md \o <<line>> \o doc_code_block(code, language)
    /\ i' = i + 1
    /\ UNCHANGED <<pc, caller, lines, shiftlevel, code, language, ret>>
    /\ UNCHANGED tvars

\* is_code and not line: the block is flushed, then the empty line
EndCode ==
    /\ InLoop /\ is_code /\ line = <<>>
    /\ is_code' = FALSE
    /\ md' = md \o doc_code_block(code, language) \o <<line>>
    /\ i' = i + 1
    /\ UNCHANGED <<pc, caller, lines, shiftlevel, code, language, ret>>
    /\ UNCHANGED tvars

\* trimmed.startswith('>>> ')
StartPython ==
    /\ InLoop /\ ~is_code
    /\ startswith(trimmed, <<">",">",">"," ">>)
    /\ is_code' = TRUE
    /\ language' = python
    /\ code' = <<line>>
    /\ i' = i + 1
    /\ UNCHANGED <<pc, caller, lines, shiftlevel, md, ret>>
    /\ UNCHANGED tvars

\* trimmed.startswith('$ ')
StartBash ==
    /\ InLoop /\ ~is_code
    /\ ~startswith(trimmed, <<">",">",">"," ">>)
    /\ startswith(trimmed, <<"$"," ">>)
    /\ is_code' = TRUE
    /\ language' = bash
    /\ code' = <<line>>
    /\ i' = i + 1
    /\ UNCHANGED <<pc, caller, lines, shiftlevel, md, ret>>
    /\ UNCHANGED tvars

\* none of the two code triggers
NoTrigger ==
    /\ ~startswith(trimmed, <<">",">",">"," ">>)
    /\ ~startswith(trimmed, <<"$"," ">>)

\* ShiftHeading tested before is_code
ShiftHeading_InCode ==
    /\ InLoop
    /\ shiftlevel # 0 /\ is_heading(line)
    /\ md' = Append(md, make_heading(get_heading(line)[1] + shiftlevel,
                                     get_heading(line)[2]))
    /\ i' = i + 1
    /\ UNCHANGED <<pc, caller, lines, shiftlevel, is_code, code, language, ret>>
    /\ UNCHANGED tvars

\* shiftlevel != 0 and is_heading(line)
ShiftHeading ==
    /\ InLoop /\ ~is_code /\ NoTrigger
    /\ shiftlevel # 0 /\ is_heading(line)
    /\ md' = Append(md, make_heading(get_heading(line)[1] + shiftlevel,
                                     get_heading(line)[2]))
    /\ i' = i + 1
    /\ UNCHANGED <<pc, caller, lines, shiftlevel, is_code, code, language, ret>>
    /\ UNCHANGED tvars

\* no code trigger and no heading to shift
NoHeading == NoTrigger /\ ~(shiftlevel # 0 /\ is_heading(line))

\* Param that emits an empty line before the bullet, as Throw and Return do
Param_WithBlank ==
    /\ InLoop /\ ~is_code /\ NoHeading
    /\ startswith(trimmed, param_marker)
    /\ md' = md \o << <<>>, translate(line, param_marker, param_bullet) >>
    /\ i' = i + 1
    /\ UNCHANGED <<pc, caller, lines, shiftlevel, is_code, code, language, ret>>
    /\ UNCHANGED tvars

\* trimmed.startswith(":param")
Param ==
    /\ InLoop /\ ~is_code /\ NoHeading
    /\ startswith(trimmed, param_marker)
    /\ md' = Append(md, translate(line, param_marker, param_bullet))
    /\ i' = i + 1
    /\ UNCHANGED <<pc, caller, lines, shiftlevel, is_code, code, language, ret>>
    /\ UNCHANGED tvars

\* trimmed.startswith(":throw")
Throw ==
    /\ InLoop /\ ~is_code /\ NoHeading
    /\ ~startswith(trimmed, param_marker)
    /\ startswith(trimmed, throw_marker)
    /\ md' = md \o << <<>>, translate(line, throw_marker, throw_bullet) >>
    /\ i' = i + 1
    /\ UNCHANGED <<pc, caller, lines, shiftlevel, is_code, code, language, ret>>
    /\ UNCHANGED tvars

\* trimmed.startswith(":return")
Return ==
    /\ InLoop /\ ~is_code /\ NoHeading
    /\ ~startswith(trimmed, param_marker)
    /\ ~startswith(trimmed, throw_marker)
    /\ startswith(trimmed, return_marker)
    /\ md' = md \o << <<>>, translate(line, return_marker, return_bullet) >>
    /\ i' = i + 1
    /\ UNCHANGED <<pc, caller, lines, shiftlevel, is_code, code, language, ret>>
    /\ UNCHANGED tvars

\* Emit that skips an empty line
Emit_SkipEmpty ==
    /\ InLoop /\ ~is_code /\ NoHeading
    /\ ~startswith(trimmed, param_marker)
    /\ ~startswith(trimmed, throw_marker)
    /\ ~startswith(trimmed, return_marker)
    /\ md' = IF line = <<>> THEN md ELSE Append(md, line)
    /\ i' = i + 1
    /\ UNCHANGED <<pc, caller, lines, shiftlevel, is_code, code, language, ret>>
    /\ UNCHANGED tvars

\* else: md += [line]
Emit ==
    /\ InLoop /\ ~is_code /\ NoHeading
    /\ ~startswith(trimmed, param_marker)
    /\ ~startswith(trimmed, throw_marker)
    /\ ~startswith(trimmed, return_marker)
    /\ md' = Append(md, line)
    /\ i' = i + 1
    /\ UNCHANGED <<pc, caller, lines, shiftlevel, is_code, code, language, ret>>
    /\ UNCHANGED tvars

\* Finish that returns md without the final empty line
Finish_NoFinalLine ==
    /\ pc = "loop" /\ i = Len(lines)
    /\ md' = IF is_code THEN md \o doc_code_block(code, language) ELSE md
    /\ ret' = md'
    /\ pc' = "done"
    /\ UNCHANGED <<caller, lines, shiftlevel, i, is_code, code, language>>
    /\ UNCHANGED tvars

\* Finish without the flush of an open block
Finish_NoFlush ==
    /\ pc = "loop" /\ i = Len(lines)
    /\ md' = md
    /\ ret' = md' \o << <<>> >>
    /\ pc' = "done"
    /\ UNCHANGED <<caller, lines, shiftlevel, i, is_code, code, language>>
    /\ UNCHANGED tvars

\* after the loop: an open block is flushed, md + [""] is returned
Finish ==
    /\ pc = "loop" /\ i = Len(lines)
    /\ md' = IF is_code THEN md \o doc_code_block(code, language) ELSE md
    /\ ret' = md' \o << <<>> >>
    /\ pc' = "done"
    /\ UNCHANGED <<caller, lines, shiftlevel, i, is_code, code, language>>
    /\ UNCHANGED tvars

\* one step of _doc2md
Transform ==
    \/ AppendCode \/ EndCode \/ StartPython \/ StartBash \/ ShiftHeading
    \/ Param \/ Throw \/ Return \/ Emit \/ Finish

\* _doc2md(lines, shiftlevel) called on its own
Init ==
    /\ pc = "loop"
    /\ caller = "_doc2md"
    /\ lines \in SeqsUpTo(TLines, MaxLen)
    /\ shiftlevel \in 0..MaxShift
    /\ i = 0
    /\ md = <<>>
    /\ is_code = FALSE
    /\ code = None
    /\ language = None
    /\ ret = None
    /\ text = None /\ min_level = None /\ toc = None /\ more_info = None
    /\ title = None /\ sections = None /\ level = None /\ doc = None
    /\ call = None /\ result = None

Next == Transform

Spec == Init /\ [][Next]_vars

\* ---------------------------------------------------- _doc2md as a function
\* the locals of _doc2md before the loop
start == [md |-> <<>>, is_code |-> FALSE, code |-> None, language |-> None]

\* one pass of the loop body on line l with the locals st
step(st, l, shift) ==
    IF st.is_code
    THEN IF l # <<>>
         THEN [st EXCEPT !.code = Append(st.code, l)]
         ELSE [st EXCEPT !.is_code = FALSE,
                         !.md = st.md \o doc_code_block(st.code, st.language) \o <<l>>]
    ELSE IF startswith(lstrip(l), <<">",">",">"," ">>)
    THEN [st EXCEPT !.is_code = TRUE, !.language = python, !.code = <<l>>]
    ELSE IF startswith(lstrip(l), <<"$"," ">>)
    THEN [st EXCEPT !.is_code = TRUE, !.language = bash, !.code = <<l>>]
    ELSE IF shift # 0 /\ is_heading(l)
    THEN [st EXCEPT !.md = Append(st.md, make_heading(get_heading(l)[1] + shift,
                                                      get_heading(l)[2]))]
    ELSE IF startswith(lstrip(l), param_marker)
    THEN [st EXCEPT !.md = Append(st.md, translate(l, param_marker, param_bullet))]
    ELSE IF startswith(lstrip(l), throw_marker)
    THEN [st EXCEPT !.md = st.md \o << <<>>, translate(l, throw_marker, throw_bullet) >>]
    ELSE IF startswith(lstrip(l), return_marker)
    THEN [st EXCEPT !.md = st.md \o << <<>>, translate(l, return_marker, return_bullet) >>]
    ELSE [st EXCEPT !.md = Append(st.md, l)]

RECURSIVE loop(_, _, _, _)
\* the loop of _doc2md from line k on
loop(st, ls, k, shift) ==
    IF k > Len(ls) THEN st ELSE loop(step(st, ls[k], shift), ls, k + 1, shift)

\* _doc2md(lines, shiftlevel)
_doc2md(ls, shift) ==
    LET st == loop(start, ls, 1, shift)
    IN  (IF st.is_code THEN st.md \o doc_code_block(st.code, st.language)
         ELSE st.md) \o << <<>> >>

\* the steps of _doc2md return what the function returns
StepwiseAgrees == pc = "done" => ret = _doc2md(lines, shiftlevel)

\* ------------------------------------------------------------------- doc2md
\* lines of a docstring
DocLines == {
    <<>>,
    <<"t">>,
    <<"#","#"," ","A">>,
    <<"#","#","#"," ","B">>,
    <<"#"," ","T">>,
    <<":","p","a","r","a","m"," ","x">>,
    <<"$"," ","l","s">> }

\* what text.split('\n') can be after doctrim (inspect.cleandoc): one empty
\* line, or lines without an empty first or last line where the first line or
\* one of the following lines has no indentation
IsTrimmed(ls) ==
    \/ ls = << <<>> >>
    \/ /\ Len(ls) >= 1
       /\ ls[1] # <<>> /\ ls[Len(ls)] # <<>>
       /\ \/ Indent(ls[1]) = 0
          \/ \E k \in 2..Len(ls) : ls[k] # <<>> /\ Indent(ls[k]) = 0

\* the docstrings given to doc2md, trimmed and split
DocTexts == {ls \in SeqsUpTo(DocLines, MaxDocLen) : IsTrimmed(ls)}

\* titles as resolved from the source of the entity
Titles == {<<"h","(","x",")">>, <<"_","g","(",")">>}

\* kinds of entity: the three that doc2md knows and any other
Kinds == {"function", "class", "method", "other"}

\* sections = find_sections(lines)
FindSections ==
    /\ pc = "find_sections"
    /\ LET r == find_sections(lines)
       IN  IF r[1] = "raise"
           THEN /\ pc' = "raised"
                /\ result' = r
                /\ UNCHANGED sections
           ELSE /\ pc' = "level"
                /\ sections' = r[2]
                /\ UNCHANGED result
    /\ UNCHANGED <<caller, lines, shiftlevel, i, md, is_code, code, language, ret>>
    /\ UNCHANGED <<text, min_level, toc, more_info, title, level, doc, call>>

\* ShiftSections that leaves the sections as they are
ShiftSections_KeepSections ==
    /\ pc = "level"
    /\ LET lev == IF sections # <<>>
                  THEN Min({sections[k][1] : k \in 1..Len(sections)})
                  ELSE min_level
       IN  IF lev < min_level
           THEN /\ shiftlevel' = min_level - lev
                /\ level' = min_level
           ELSE /\ shiftlevel' = 0
                /\ level' = lev
    /\ pc' = "title"
    /\ UNCHANGED <<caller, lines, i, md, is_code, code, language, ret>>
    /\ UNCHANGED <<text, min_level, toc, more_info, title, doc, call, result, sections>>

\* level and shiftlevel; the sections are shifted
ShiftSections ==
    /\ pc = "level"
    /\ LET lev == IF sections # <<>>
                  THEN Min({sections[k][1] : k \in 1..Len(sections)})
                  ELSE min_level
       IN  IF lev < min_level
           THEN /\ shiftlevel' = min_level - lev
                /\ level' = min_level
                /\ sections' = [k \in 1..Len(sections) |->
                                   <<sections[k][1] + (min_level - lev),
                                     sections[k][2]>>]
           ELSE /\ shiftlevel' = 0
                /\ level' = lev
                /\ UNCHANGED sections
    /\ pc' = "title"
    /\ UNCHANGED <<caller, lines, i, md, is_code, code, language, ret>>
    /\ UNCHANGED <<text, min_level, toc, more_info, title, doc, call, result>>

\* the title of the entity, then md = [make_heading(level, title), ""]
Heading ==
    /\ pc = "title"
    /\ \E kind \in Kinds, t \in Titles :
          IF kind = "other"
          THEN /\ pc' = "raised"
               /\ result' = <<"raise", "Exception">>
               /\ UNCHANGED <<level, title, doc>>
          ELSE /\ level' = IF kind = "class" THEN level + 1 ELSE level
               /\ title' = IF startswith(t, <<"_">>) THEN <<"\\">> \o t ELSE t
               /\ doc' = <<make_heading(level', title'), <<>>>>
               /\ pc' = "lead"
               /\ UNCHANGED result
    /\ UNCHANGED <<caller, lines, shiftlevel, i, md, is_code, code, language, ret>>
    /\ UNCHANGED <<text, min_level, toc, more_info, sections, call>>

\* while lines and the first line is no ":" line: md.append(lines.pop(0).lstrip())
PopLead ==
    /\ pc = "lead"
    /\ Len(lines) > 0 /\ ~startswith(lstrip(lines[1]), <<":">>)
    /\ doc' = Append(doc, lstrip(lines[1]))
    /\ lines' = Tail(lines)
    /\ UNCHANGED <<pc, caller, shiftlevel, i, md, is_code, code, language, ret>>
    /\ UNCHANGED <<text, min_level, toc, more_info, title, sections, level, call, result>>

\* Assemble without the md.append("") that follows the while loop
Assemble_NoBlank ==
    /\ pc = "lead"
    /\ ~(Len(lines) > 0 /\ ~startswith(lstrip(lines[1]), <<":">>))
    /\ \E t \in BOOLEAN :
          /\ toc' = t
          /\ doc' = (IF t THEN doc \o make_toc(sections) ELSE doc)
                        \o _doc2md(lines, shiftlevel)
    /\ pc' = "return"
    /\ UNCHANGED <<caller, lines, shiftlevel, i, md, is_code, code, language, ret>>
    /\ UNCHANGED <<text, min_level, more_info, title, sections, level, call, result>>

\* after the while loop: md.append(""), the toc if asked for, then
\* md += _doc2md(lines, shiftlevel)
Assemble ==
    /\ pc = "lead"
    /\ ~(Len(lines) > 0 /\ ~startswith(lstrip(lines[1]), <<":">>))
    /\ \E t \in BOOLEAN :
          /\ toc' = t
          /\ doc' = (IF t THEN Append(doc, <<>>) \o make_toc(sections)
                     ELSE Append(doc, <<>>)) \o _doc2md(lines, shiftlevel)
    /\ pc' = "return"
    /\ UNCHANGED <<caller, lines, shiftlevel, i, md, is_code, code, language, ret>>
    /\ UNCHANGED <<text, min_level, more_info, title, sections, level, call, result>>

RECURSIVE join(_)
\* "\n".join(ls)
join(ls) ==
    IF ls = <<>> THEN <<>>
    ELSE IF Len(ls) = 1 THEN ls[1]
         ELSE ls[1] \o <<"\n">> \o join(Tail(ls))

\* return (md, sections) or "\n".join(md)
ReturnDoc ==
    /\ pc = "return"
    /\ \E m \in BOOLEAN :
          /\ more_info' = m
          /\ result' = IF m THEN <<"return", <<doc, sections>>>>
                       ELSE <<"return", join(doc)>>
    /\ pc' = "returned"
    /\ UNCHANGED <<caller, lines, shiftlevel, i, md, is_code, code, language, ret>>
    /\ UNCHANGED <<text, min_level, toc, title, sections, level, doc, call>>

\* doc2md(module, title, min_level, more_info, toc) after the docstring is
\* trimmed and split
DocInit ==
    /\ pc = "find_sections"
    /\ caller = "doc2md"
    /\ text \in DocTexts
    /\ lines = text
    /\ min_level \in 1..MaxMinLevel
    /\ shiftlevel = None
    /\ i = None
    /\ md = None
    /\ is_code = None
    /\ code = None
    /\ language = None
    /\ ret = None
    /\ toc = None /\ more_info = None
    /\ title = None /\ sections = None /\ level = None /\ doc = None
    /\ call = None /\ result = None

DocNext ==
    \/ FindSections \/ ShiftSections \/ Heading \/ PopLead \/ Assemble
    \/ ReturnDoc

SpecDoc == DocInit /\ [][DocNext]_vars

\* ------------------------------------------- helper functions on their own
\* lines of a code block
CodeLines == {
    <<">",">",">"," ","x"," ","="," ","1">>,
    <<">",">",">"," ","y"," ","="," ","2">>,
    <<">",">",">"," ","x">>,
    <<" ",">",">",">"," ","x">>,
    <<"1">>,
    <<">",">",">">>,
    <<".",".","."," ","z">>,
    <<"$"," ","l","s">>,
    <<" ","$"," ","l","s">>,
    <<" "," ","#"," ","c">> }

\* the blocks _doc2md flushes: non-empty lines, the first one the trigger of
\* the language
CodeArgs ==
    {<<"doc_code_block", ls, lang>> :
        ls \in SeqsUpTo(CodeLines, MaxArgLen), lang \in {python, bash}}

IsFlushed(c) ==
    /\ Len(c[2]) >= 1
    /\ c[3] = python => startswith(lstrip(c[2][1]), <<">",">",">"," ">>)
    /\ c[3] = bash => /\ ~startswith(lstrip(c[2][1]), <<">",">",">"," ">>)
                      /\ startswith(lstrip(c[2][1]), <<"$"," ">>)

\* lines given to find_sections
HeadLines == {
    <<>>,
    <<"t">>,
    <<"#"," ","T">>,
    <<"#","#"," ","A">>,
    <<"#","#","#"," ","B"," ","c">>,
    <<"#","#","x">>,
    <<" ","#","#"," ","C">>,
    <<"#","#"," ","#","x">>,
    <<"#","#"," "," ","D">> }

\* lines given to get_heading
GetHeadingLines == HeadLines \cup {<<"#">>, <<"#"," ">>}

\* lines given to unindent
UnindentLines == {
    <<>>,
    <<" ">>,
    <<"x">>,
    <<" ","x">>,
    <<" "," ","x"," ","y">>,
    <<"\t","x">> }

\* sections given to make_toc
TocSections ==
    {<<n, t>> : n \in 2..4, t \in {<<"A">>, <<"W","h","a","t"," ","n","o","w","?">>, <<"Q","&","A",":"," ","b","_","C">>}}

\* doc_code_block(lines, language) is called
CallDocCodeBlock ==
    /\ pc = "call" /\ call[1] = "doc_code_block"
    /\ result' = doc_code_block(call[2], call[3])
    /\ pc' = "returned"
    /\ UNCHANGED <<caller, lines, shiftlevel, i, md, is_code, code, language, ret>>
    /\ UNCHANGED <<text, min_level, toc, more_info, title, sections, level, doc, call>>

\* find_sections(lines) is called
CallFindSections ==
    /\ pc = "call" /\ call[1] = "find_sections"
    /\ result' = find_sections(call[2])
    /\ pc' = IF result'[1] = "raise" THEN "raised" ELSE "returned"
    /\ UNCHANGED <<caller, lines, shiftlevel, i, md, is_code, code, language, ret>>
    /\ UNCHANGED <<text, min_level, toc, more_info, title, sections, level, doc, call>>

\* make_toc(sections) is called
CallMakeToc ==
    /\ pc = "call" /\ call[1] = "make_toc"
    /\ result' = make_toc(call[2])
    /\ pc' = "returned"
    /\ UNCHANGED <<caller, lines, shiftlevel, i, md, is_code, code, language, ret>>
    /\ UNCHANGED <<text, min_level, toc, more_info, title, sections, level, doc, call>>

\* get_heading(line) is called
CallGetHeading ==
    /\ pc = "call" /\ call[1] = "get_heading"
    /\ result' = IF is_heading(call[2]) THEN <<"return", get_heading(call[2])>>
                 ELSE get_heading(call[2])
    /\ pc' = IF result'[1] = "raise" THEN "raised" ELSE "returned"
    /\ UNCHANGED <<caller, lines, shiftlevel, i, md, is_code, code, language, ret>>
    /\ UNCHANGED <<text, min_level, toc, more_info, title, sections, level, doc, call>>

\* unindent(lines) is called
CallUnindent ==
    /\ pc = "call" /\ call[1] = "unindent"
    /\ result' = unindent(call[2])
    /\ pc' = "returned"
    /\ UNCHANGED <<caller, lines, shiftlevel, i, md, is_code, code, language, ret>>
    /\ UNCHANGED <<text, min_level, toc, more_info, title, sections, level, doc, call>>

\* one helper function is called with its arguments
HelperInit ==
    /\ pc = "call"
    /\ caller = "helper"
    /\ \/ call \in {c \in CodeArgs : IsFlushed(c)}
       \/ call \in {<<"find_sections", ls>> : ls \in SeqsUpTo(HeadLines, MaxArgLen)}
       \/ call \in {<<"make_toc", ss>> : ss \in SeqsUpTo(TocSections, MaxArgLen)}
       \/ call \in {<<"get_heading", l>> : l \in GetHeadingLines}
       \/ call \in {<<"unindent", ls>> : ls \in SeqsUpTo(UnindentLines, MaxArgLen)}
    /\ lines = None /\ shiftlevel = None /\ i = None /\ md = None
    /\ is_code = None /\ code = None /\ language = None /\ ret = None
    /\ text = None /\ min_level = None /\ toc = None /\ more_info = None
    /\ title = None /\ sections = None /\ level = None /\ doc = None
    /\ result = None

HelperNext ==
    \/ CallDocCodeBlock
    \/ CallFindSections
    \/ CallMakeToc
    \/ CallGetHeading
    \/ CallUnindent

SpecHelpers == HelperInit /\ [][HelperNext]_vars

\* ===================================================== claims about _doc2md
\* t is s without some of its first characters
IsSuffix(t, s) == Len(t) <= Len(s) /\ t = DropFirst(s, Len(s) - Len(t))

\* a line that opens a block when it is met outside a block
IsTrigger(l) ==
    startswith(lstrip(l), <<">",">",">"," ">>) \/ startswith(lstrip(l), <<"$"," ">>)

\* line k of ls lies in a block: a run of non-empty lines from a trigger line
InBlock(ls, k) ==
    /\ ls[k] # <<>>
    /\ \E j \in 1..k : IsTrigger(ls[j]) /\ \A m \in j..k : ls[m] # <<>>

RECURSIVE BlockLinesFrom(_, _)
\* the lines of ls from index k on that lie in a block, in order
BlockLinesFrom(ls, k) ==
    IF k > Len(ls) THEN <<>>
    ELSE (IF InBlock(ls, k) THEN <<ls[k]>> ELSE <<>>) \o BlockLinesFrom(ls, k + 1)

OpenFences == {<<Backtick,Backtick,Backtick,"p","y","t","h","o","n">>, <<Backtick,Backtick,Backtick,"b","a","s","h">>}
CloseFence == <<Backtick,Backtick,Backtick>>

RECURSIVE FencedFrom(_, _, _)
\* the lines of out from index k on that stand between an opening and a
\* closing fence, in order
FencedFrom(out, k, inside) ==
    IF k > Len(out) THEN <<>>
    ELSE IF ~inside
         THEN FencedFrom(out, k + 1, out[k] \in OpenFences)
         ELSE IF out[k] = CloseFence
              THEN FencedFrom(out, k + 1, FALSE)
              ELSE <<out[k]>> \o FencedFrom(out, k + 1, TRUE)

RECURSIVE OpenAtEnd(_, _, _)
\* a fence of out is still open after the last line
OpenAtEnd(out, k, inside) ==
    IF k > Len(out) THEN inside
    ELSE IF ~inside THEN OpenAtEnd(out, k + 1, out[k] \in OpenFences)
         ELSE OpenAtEnd(out, k + 1, out[k] # CloseFence)

\* C1: in _doc2md, an empty line met while a block is open appends to the
\* output the opening fence, the accumulated lines (as they are in a bash
\* block, each without some leading characters at most in a python block),
\* the closing fence and then the empty line, in this order, and leaves the
\* transformer in NORMAL.
C1_BlankLineEndsBlock ==
    [][ (InLoop /\ is_code /\ line = <<>>) =>
            /\ Len(md') = Len(md) + Len(code) + 3
            /\ SubSeq(md', 1, Len(md)) = md
            /\ md'[Len(md) + 1] = <<Backtick,Backtick,Backtick>> \o language
            /\ \A k \in 1..Len(code) : IsSuffix(md'[Len(md) + 1 + k], code[k])
            /\ language = bash =>
                   \A k \in 1..Len(code) : md'[Len(md) + 1 + k] = code[k]
            /\ md'[Len(md) + Len(code) + 2] = CloseFence
            /\ md'[Len(md) + Len(code) + 3] = <<>>
            /\ ~is_code'
            /\ i' = i + 1 ]_vars

\* C1 witness: a block was closed by the empty second line and the third line
\* opened a new block
C1_Witness ==
    /\ pc = "loop" /\ i = 3 /\ lines[2] = <<>> /\ is_code
    /\ Len(md) >= 4 /\ md[Len(md)] = <<>> /\ md[Len(md) - 1] = CloseFence
    /\ md[1] \in OpenFences

\* C2: when the input ends while a block is open, the returned lines end with
\* the opening fence with the block's language, the accumulated lines, the
\* closing fence and the one final empty line; and in every returned output
\* the lines between fences are, in order, the input lines that entered a
\* block, and every fence is closed.
C2_OpenBlockFlushedAtEnd ==
    pc = "done" =>
        /\ is_code =>
              LET n == Len(ret)
                  c == Len(code)
              IN  /\ n >= c + 3
                  /\ ret[n] = <<>>
                  /\ ret[n - 1] = CloseFence
                  /\ ret[n - c - 2] = <<Backtick,Backtick,Backtick>> \o language
                  /\ \A k \in 1..c : IsSuffix(ret[n - c - 2 + k], code[k])
                  /\ language = bash =>
                         \A k \in 1..c : ret[n - c - 2 + k] = code[k]
        /\ LET f == FencedFrom(ret, 1, FALSE)
               a == BlockLinesFrom(lines, 1)
           IN  /\ Len(f) = Len(a)
               /\ \A k \in 1..Len(a) : IsSuffix(f[k], a[k])
        /\ ~OpenAtEnd(ret, 1, FALSE)

\* C2 witness: the input ended inside a block of at least two lines
C2_Witness ==
    /\ pc = "done" /\ is_code /\ Len(code) >= 2
    /\ lines[Len(lines)] # <<>>

\* the line is one of the three directives
IsDirective(l) ==
    \/ startswith(lstrip(l), param_marker)
    \/ startswith(lstrip(l), throw_marker)
    \/ startswith(lstrip(l), return_marker)

\* C4: while a block is open, a non-empty line is only appended to the
\* accumulator, whatever it looks like: nothing is emitted, the language and
\* the state stay; in the returned output a heading or directive line of a
\* block stands between the fences with its text unchanged (leading
\* whitespace aside); outside a block a heading line under a non-zero shift
\* is emitted as the shifted heading only, and a directive line as a bullet
\* with no heading among the lines it adds.
C4_NoRewriteInCode ==
    /\ [][ (InLoop /\ is_code /\ line # <<>>) =>
               /\ code' = Append(code, line)
               /\ md' = md
               /\ language' = language
               /\ is_code' ]_vars
    /\ [][ (InLoop /\ ~is_code /\ ~IsTrigger(line)) =>
               /\ (shiftlevel # 0 /\ is_heading(line)) =>
                      md' = Append(md, repeat(<<"#">>, shiftlevel) \o line)
               /\ IsDirective(line) =>
                      /\ Len(md') > Len(md)
                      /\ startswith(md'[Len(md')], <<"-">>)
                      /\ \A k \in (Len(md) + 1)..Len(md') :
                             ~startswith(md'[k], <<"#">>) ]_vars
    /\ [] ( pc = "done" =>
               LET f == FencedFrom(ret, 1, FALSE)
                   a == BlockLinesFrom(lines, 1)
               IN  \A k \in 1..Len(a) :
                       (is_heading(a[k]) \/ IsDirective(a[k])) =>
                           /\ k <= Len(f)
                           /\ lstrip(f[k]) = lstrip(a[k])
                           /\ IsSuffix(f[k], a[k]) )

\* C4 witness: with a non-zero shift, a heading line, a directive line and a
\* trigger of the other language have been accumulated in one block
C4_Witness ==
    /\ pc = "done" /\ shiftlevel # 0 /\ is_code /\ Len(code) = 3
    /\ language = bash
    /\ \E k \in 2..3 : is_heading(code[k])
    /\ \E k \in 2..3 : IsDirective(code[k]) \/ startswith(code[k], <<">",">",">"," ">>)

\* the text of a directive line after its leading marker
AfterMarker(l, marker) == DropFirst(lstrip(l), Len(marker))

\* C5 (as claimed): outside a block a parameter line yields one line, a
\* throw or return line an empty line and one line; the line is the bullet
\* followed by the text after the leading marker, unchanged but for the
\* links of the type names.
C5_DirectiveBullet ==
    [][ (InLoop /\ ~is_code /\ NoHeading) =>
            /\ startswith(trimmed, param_marker) =>
                  md' = Append(md, param_bullet \o
                            link_types_from(AfterMarker(line, param_marker), 1))
            /\ (~startswith(trimmed, param_marker)
                    /\ startswith(trimmed, throw_marker)) =>
                  md' = md \o << <<>>, throw_bullet \o
                            link_types_from(AfterMarker(line, throw_marker), 1) >>
            /\ (~startswith(trimmed, param_marker)
                    /\ ~startswith(trimmed, throw_marker)
                    /\ startswith(trimmed, return_marker)) =>
                  md' = md \o << <<>>, return_bullet \o
                            link_types_from(AfterMarker(line, return_marker), 1) >>
       ]_vars

\* the table entry whose name occurs in s at index k, 0 if none
NameAt(s, k) ==
    LET hit == {n \in 1..Len(type_url) : MatchAt(s, type_url[n][1], k)}
    IN  IF hit = {} THEN 0 ELSE CHOOSE n \in hit : \A m \in hit : n <= m

RECURSIVE LinkEachFrom(_, _)
\* s from index k on with each occurrence of a type name replaced by the link
\* of the table, the inserted links left as they are
LinkEachFrom(s, k) ==
    IF k > Len(s) THEN <<>>
    ELSE IF NameAt(s, k) # 0
         THEN type_url[NameAt(s, k)][2]
                  \o LinkEachFrom(s, k + Len(type_url[NameAt(s, k)][1]))
         ELSE <<s[k]>> \o LinkEachFrom(s, k + 1)

\* C6 (as claimed): a directive line is emitted with each type name of its
\* text replaced by the link of the table and nothing else altered, a link
\* once inserted is not rewritten; ":return: an int" gives an empty line and
\* "- return: an " followed by the int link of the table.
C6_LinkAsInTable ==
    [][ (InLoop /\ ~is_code /\ NoHeading /\ IsDirective(line)) =>
            /\ md'[Len(md')] =
                   lstrip(LinkEachFrom(
                       IF startswith(trimmed, param_marker)
                       THEN replace(line, param_marker, param_bullet)
                       ELSE IF startswith(trimmed, throw_marker)
                            THEN replace(line, throw_marker, throw_bullet)
                            ELSE replace(line, return_marker, return_bullet), 1))
            /\ line = <<":","r","e","t","u","r","n",":"," ","a","n"," ","i","n","t">> =>
                   md' = md \o << <<>>, <<"-"," ","r","e","t","u","r","n",":"," ","a","n"," ">> \o type_url[3][2] >>
       ]_vars

\* ===================================== claims about the helper functions
\* a line that starts with ">>> " or "... " or is exactly ">>>" or "..."
PromptOnly(l) ==
    \/ /\ Len(l) >= 4
       /\ l[1] = l[2] /\ l[2] = l[3] /\ l[1] \in {">", "."} /\ l[4] = " "
    \/ /\ Len(l) = 3
       /\ l[1] = l[2] /\ l[2] = l[3] /\ l[1] \in {">", "."}

\* t is s without its first four characters
FourOff(t, s) ==
    IF Len(s) <= 4 THEN t = <<>>
    ELSE Len(t) = Len(s) - 4 /\ \A k \in 1..Len(t) : t[k] = s[k + 4]

\* C3: a flushed python block is emitted between a "```python" line and a
\* "```" line; after the indentation is normalized, if every line is a prompt
\* line each line is emitted without its first 4 characters, otherwise every
\* line is emitted unchanged, prompts included.
C3_TranscriptPrompts ==
    (pc = "returned" /\ call[1] = "doc_code_block" /\ call[3] = python) =>
        LET u == unindent(call[2])
            n == Len(call[2])
        IN  /\ Len(result) = n + 2
            /\ result[1] = <<Backtick,Backtick,Backtick,"p","y","t","h","o","n">>
            /\ result[n + 2] = <<Backtick,Backtick,Backtick>>
            /\ IF \A k \in 1..n : PromptOnly(u[k])
               THEN \A k \in 1..n : FourOff(result[k + 1], u[k])
               ELSE \A k \in 1..n : result[k + 1] = u[k]
            /\ call[2] = <<<<">",">",">"," ","x"," ","="," ","1">>, <<">",">",">"," ","y"," ","="," ","2">>>> =>
                   result = <<<<Backtick,Backtick,Backtick,"p","y","t","h","o","n">>, <<"x"," ","="," ","1">>, <<"y"," ","="," ","2">>, <<Backtick,Backtick,Backtick>>>>
            /\ call[2] = <<<<">",">",">"," ","x"," ","="," ","1">>, <<">",">",">"," ","x">>, <<"1">>>> =>
                   result = <<<<Backtick,Backtick,Backtick,"p","y","t","h","o","n">>, <<">",">",">"," ","x"," ","="," ","1">>, <<">",">",">"," ","x">>, <<"1">>, <<Backtick,Backtick,Backtick>>>>

\* C3 witness: an indented block of prompt lines only has been stripped
C3_Witness ==
    /\ pc = "returned" /\ call[1] = "doc_code_block" /\ call[3] = python
    /\ call[2] = <<<<" ",">",">",">"," ","x">>, <<" ",">",">",">"," ","x">>, <<" ",">",">",">"," ","x">>>>
    /\ result = <<<<Backtick,Backtick,Backtick,"p","y","t","h","o","n">>, <<"x">>, <<"x">>, <<"x">>, <<Backtick,Backtick,Backtick>>>>

RECURSIVE HeadingsFrom(_, _)
\* <<level, title>> of the heading lines of ls from index k on, in order: the
\* number of "#" and the text after the space that follows them
HeadingsFrom(ls, k) ==
    IF k > Len(ls) THEN <<>>
    ELSE (IF is_heading(ls[k])
          THEN << <<HashRun(ls[k]), DropFirst(ls[k], HashRun(ls[k]) + 1)>> >>
          ELSE <<>>) \o HeadingsFrom(ls, k + 1)

\* C9: find_sections raises if and only if a heading line has level 1;
\* otherwise it returns the <<level, title>> of all heading lines in document
\* order, every level at least 2.
C9_FindSections ==
    (pc \in {"returned", "raised"} /\ call[1] = "find_sections") =>
        LET hs == HeadingsFrom(call[2], 1)
        IN  /\ result[1] \in {"return", "raise"}
            /\ result[1] = "raise" <=> \E k \in 1..Len(hs) : hs[k][1] = 1
            /\ result[1] = "raise" => Len(result) = 2 /\ result[2] = "Exception"
            /\ result[1] = "return" =>
                   /\ result[2] = hs
                   /\ \A k \in 1..Len(hs) : result[2][k][1] >= 2

\* C9 witness: two sections of different levels were returned from lines
\* that also hold a line that is no heading
C9_Witness ==
    /\ pc = "returned" /\ call[1] = "find_sections"
    /\ Len(call[2]) = 3 /\ Len(result[2]) = 2
    /\ result[2][1][1] > result[2][2][1]

\* C10: make_toc returns no item for no section, else one item per section
\* in the order of the sections; the item of a section of level L is
\* "- [title](#anchor)" after 4 * (L - outer) spaces, outer the least level.
C10_TocItems ==
    (pc = "returned" /\ call[1] = "make_toc") =>
        LET ss == call[2]
            n == Len(ss)
        IN  /\ Len(result) = n
            /\ ss = <<>> <=> result = <<>>
            /\ \A k \in 1..n :
                  /\ \A j \in 1..Indent(result[k]) : result[k][j] = " "
                  /\ startswith(lstrip(result[k]), <<"-"," ","[">> \o ss[k][2] \o <<"]","(","#">>)
                  /\ \A j \in 1..n :
                        Indent(result[k]) - Indent(result[j])
                            = 4 * (ss[k][1] - ss[j][1])
            /\ n > 0 =>
                  /\ \E k \in 1..n : Indent(result[k]) = 0
                  /\ \A k \in 1..n :
                        Indent(result[k]) =
                            4 * (ss[k][1] - Min({ss[j][1] : j \in 1..n}))

\* C10 witness: three sections in an order that is not sorted by level
C10_Witness ==
    /\ pc = "returned" /\ call[1] = "make_toc"
    /\ Len(call[2]) = 3
    /\ call[2][1][1] = 3 /\ call[2][2][1] = 2 /\ call[2][3][1] = 4
    /\ Indent(result[1]) = 4 /\ Indent(result[2]) = 0 /\ Indent(result[3]) = 8

\* ====================================================== claims about doc2md
\* doc2md is past the computation of the shift
Shifted ==
    \/ pc \in {"title", "lead", "return", "returned"}
    \/ pc = "raised" /\ sections # None

\* C8: the shift of doc2md is min_level minus the least section level when
\* that is positive, else 0 (also without sections); it is added to the
\* level of every section, order and titles kept, and then no section level
\* is below min_level.
C8_ShiftLevel ==
    Shifted =>
        LET orig == find_sections(text)[2]
            n == Len(orig)
            least == Min({orig[k][1] : k \in 1..n})
        IN  /\ shiftlevel >= 0
            /\ shiftlevel = IF n > 0 /\ min_level - least > 0
                            THEN min_level - least ELSE 0
            /\ Len(sections) = n
            /\ \A k \in 1..n :
                  /\ sections[k] = <<orig[k][1] + shiftlevel, orig[k][2]>>
                  /\ sections[k][1] >= min_level
            /\ (orig = << <<2, <<"A">>>>, <<3, <<"B">>>> >> /\ min_level = 1) =>
                   sections = orig
            /\ (orig = << <<2, <<"A">>>>, <<3, <<"B">>>> >> /\ min_level = 3) =>
                   sections = << <<3, <<"A">>>>, <<4, <<"B">>>> >>

\* C8 witness: sections [(2, "A"), (3, "B")] were shifted by 1 for min_level 3
C8_Witness ==
    /\ pc = "returned"
    /\ text = <<<<"#","#"," ","A">>, <<"#","#","#"," ","B">>>> /\ min_level = 3
    /\ shiftlevel = 1
    /\ sections = << <<3, <<"A">>>>, <<4, <<"B">>>> >>

RECURSIVE UnfencedFrom(_, _, _)
\* the lines of out from index k on that stand outside the fences
UnfencedFrom(out, k, inside) ==
    IF k > Len(out) THEN <<>>
    ELSE IF ~inside
         THEN IF out[k] \in OpenFences
              THEN UnfencedFrom(out, k + 1, TRUE)
              ELSE <<out[k]>> \o UnfencedFrom(out, k + 1, FALSE)
         ELSE UnfencedFrom(out, k + 1, out[k] # CloseFence)

RECURSIVE ProseFrom(_, _)
\* the lines of ls from index k on that lie in no block
ProseFrom(ls, k) ==
    IF k > Len(ls) THEN <<>>
    ELSE (IF InBlock(ls, k) THEN <<>> ELSE <<ls[k]>>) \o ProseFrom(ls, k + 1)

\* C7 (as claimed): when the shift is not zero, the heading lines of the
\* rendered body (the lines after the title heading, outside the fences)
\* are, in document order, the heading lines of the docstring (those in no
\* code block) with the level increased by the shift and the title unchanged.
C7_BodyHeadingsShifted ==
    (pc \in {"return", "returned"} /\ shiftlevel # 0) =>
        LET body == HeadingsFrom(UnfencedFrom(Tail(doc), 1, FALSE), 1)
            heads == HeadingsFrom(ProseFrom(text, 1), 1)
        IN  body = [k \in 1..Len(heads) |->
                       <<heads[k][1] + shiftlevel, heads[k][2]>>]

\* =============================================== claims C11 to C20
RECURSIVE AnchorFrom(_, _)
\* the title t from index k on, character by character: a space becomes a
\* hyphen, a "?" is left out, a capital becomes the small letter, any other
\* character stays
AnchorFrom(t, k) ==
    IF k > Len(t) THEN <<>>
    ELSE (IF t[k] = " " THEN <<"-">>
          ELSE IF t[k] = "?" THEN <<>>
          ELSE IF \E n \in 1..26 : Upper[n] = t[k]
               THEN <<Lower[CHOOSE n \in 1..26 : Upper[n] = t[k]]>>
               ELSE <<t[k]>>) \o AnchorFrom(t, k + 1)

\* C11: the item of make_toc for a section is, after its indentation,
\* "- [" title "](#" anchor ")" with the title unchanged and the anchor the
\* title lowercased, each space a hyphen, each "?" removed, no other
\* character changed; the title "What now?" gives "- [What now?](#what-now)".
C11_AnchorSlug ==
    (pc = "returned" /\ call[1] = "make_toc") =>
        \A k \in 1..Len(call[2]) :
            /\ lstrip(result[k]) =
                   <<"-"," ","[">> \o call[2][k][2] \o <<"]","(","#">>
                       \o AnchorFrom(call[2][k][2], 1) \o <<")">>
            /\ call[2][k][2] = <<"W","h","a","t"," ","n","o","w","?">> =>
                   lstrip(result[k]) = <<"-"," ","[","W","h","a","t"," ","n","o","w","?","]","(","#","w","h","a","t","-","n","o","w",")">>

\* C11 witness: the items of "What now?" and of a title with other
\* punctuation were made
C11_Witness ==
    /\ pc = "returned" /\ call[1] = "make_toc" /\ Len(call[2]) = 2
    /\ result[1] = <<"-"," ","[","W","h","a","t"," ","n","o","w","?","]","(","#","w","h","a","t","-","n","o","w",")">>
    /\ result[2] = <<"-"," ","[","Q","&","A",":"," ","b","_","C","]","(","#","q","&","a",":","-","b","_","c",")">>

\* the last two lines of out are empty
TwoEmptyAtEnd(out) ==
    Len(out) >= 2 /\ out[Len(out)] = <<>> /\ out[Len(out) - 1] = <<>>

\* C12 (as claimed): the output of _doc2md ends with exactly one empty line:
\* its last line is empty and it does not end with two or more empty lines.
C12_OneTrailingEmpty ==
    pc = "done" =>
        /\ Len(ret) >= 1 /\ ret[Len(ret)] = <<>>
        /\ ~TwoEmptyAtEnd(ret)

\* C12 (amended): the output of _doc2md is the processed lines followed by
\* one appended empty line, so its last line is empty; it ends with two empty
\* lines exactly when the last input line is empty.
C12_OneAppendedEmpty ==
    pc = "done" =>
        /\ ret = md \o << <<>> >>
        /\ ret[Len(ret)] = <<>>
        /\ TwoEmptyAtEnd(ret) <=>
               (Len(lines) >= 1 /\ lines[Len(lines)] = <<>>)

\* C12 witness: a block closed by the empty last input line, the output ends
\* with the closing fence and two empty lines
C12_Witness ==
    /\ pc = "done" /\ Len(lines) = 2 /\ lines[2] = <<>>
    /\ Len(ret) = 5 /\ ret[3] = CloseFence /\ TwoEmptyAtEnd(ret)

RECURSIVE InOrder(_, _, _, _, _)
\* out from index j on is what the input ls from index k on becomes, line by
\* line and in order: a line outside a block is unchanged, or it is a heading
\* with the level raised by shift, or a bullet (after an added empty line
\* for throw and return); a trigger line is preceded by an added opening
\* fence; a line of a block keeps its text up to some leading characters; the
\* block is closed by an added closing fence; one empty line is added last
InOrder(out, j, ls, k, inside) ==
    IF k > Len(ls)
    THEN IF inside
         THEN Len(out) = j + 1 /\ out[j] = CloseFence /\ out[j + 1] = <<>>
         ELSE Len(out) = j /\ out[j] = <<>>
    ELSE IF j > Len(out) THEN FALSE
    ELSE IF inside
    THEN IF ls[k] = <<>>
         THEN /\ j + 1 <= Len(out)
              /\ out[j] = CloseFence /\ out[j + 1] = <<>>
              /\ InOrder(out, j + 2, ls, k + 1, FALSE)
         ELSE /\ IsSuffix(out[j], ls[k])
              /\ InOrder(out, j + 1, ls, k + 1, TRUE)
    ELSE IF IsTrigger(ls[k])
    THEN /\ j + 1 <= Len(out)
         /\ out[j] \in OpenFences
         /\ IsSuffix(out[j + 1], ls[k])
         /\ InOrder(out, j + 2, ls, k + 1, TRUE)
    ELSE IF shiftlevel # 0 /\ is_heading(ls[k])
    THEN /\ out[j] = repeat(<<"#">>, shiftlevel) \o ls[k]
         /\ InOrder(out, j + 1, ls, k + 1, FALSE)
    ELSE IF startswith(lstrip(ls[k]), param_marker)
    THEN /\ startswith(out[j], param_bullet)
         /\ InOrder(out, j + 1, ls, k + 1, FALSE)
    ELSE IF startswith(lstrip(ls[k]), throw_marker)
    THEN /\ j + 1 <= Len(out)
         /\ out[j] = <<>> /\ startswith(out[j + 1], throw_bullet)
         /\ InOrder(out, j + 2, ls, k + 1, FALSE)
    ELSE IF startswith(lstrip(ls[k]), return_marker)
    THEN /\ j + 1 <= Len(out)
         /\ out[j] = <<>> /\ startswith(out[j + 1], return_bullet)
         /\ InOrder(out, j + 2, ls, k + 1, FALSE)
    ELSE /\ out[j] = ls[k]
         /\ InOrder(out, j + 1, ls, k + 1, FALSE)

\* C13: in NORMAL a line that is no trigger, no heading to shift and no
\* directive is emitted unchanged; the returned output is the input lines in
\* their order, each unchanged, rewritten in place or inside a fence, plus
\* only the fences, the empty line before a throw or return bullet and the
\* final empty line.
C13_NothingDroppedOrReordered ==
    /\ [][ (InLoop /\ ~is_code /\ ~IsTrigger(line) /\ ~IsDirective(line)
               /\ ~(shiftlevel # 0 /\ is_heading(line))) =>
              md' = Append(md, line) ]_vars
    /\ [] (pc = "done" => InOrder(ret, 1, lines, 1, FALSE))

\* C13 witness: an empty line, a plain line and a directive were emitted in
\* the order of the input
C13_Witness ==
    /\ pc = "done"
    /\ lines = << <<>>, <<"1">>, <<":","t","h","r","o","w"," ","E","x","c","e","p","t","i","o","n">> >>
    /\ Len(ret) = 5 /\ ret[1] = <<>> /\ ret[2] = <<"1">> /\ ret[3] = <<>>

\* the parameter line of the example
ParamBoolLine == <<":","p","a","r","a","m"," ","x",":"," ","a"," ","b","o","o","l"," ","v","a","l","u","e">>

\* C17 (as claimed): outside a block the line ":param x: a bool value" is
\* emitted as the one line "- param x: a " bool-link " value".
C17_ParamKeepsWord ==
    [][ (InLoop /\ ~is_code /\ line = ParamBoolLine) =>
            md' = Append(md, <<"-"," ","p","a","r","a","m"," ","x",":"," ","a"," ">> \o type_url[1][2] \o <<" ","v","a","l","u","e">>)
      ]_vars

\* C17 (amended): outside a block the line ":param x: a bool value" is
\* emitted as the one line "- x: a " bool-link " value": the marker ":param"
\* as a whole becomes "-", and the line holds exactly one link.
C17_ParamBecomesDash ==
    [][ (InLoop /\ ~is_code /\ line = ParamBoolLine) =>
            /\ md' = Append(md, <<"-"," ","x",":"," ","a"," ">> \o type_url[1][2] \o <<" ","v","a","l","u","e">>)
            /\ count(md'[Len(md')], <<"]","(">>) = 1
            /\ count(md'[Len(md')], <<"h","t","t","p","s",":","/","/">>) = 1 ]_vars

\* C17 witness: the line was translated after another line
C17_Witness ==
    /\ pc = "loop" /\ i = 2 /\ ~is_code /\ lines[2] = ParamBoolLine
    /\ Len(md) = 2
    /\ md[2] = <<"-"," ","x",":"," ","a"," ">> \o type_url[1][2] \o <<" ","v","a","l","u","e">>

\* C14: for every line that matches "^#+ ", make_heading of the level and
\* title that get_heading returns is the line itself; on any other line
\* get_heading raises AssertionError and returns no pair.
C14_HeadingRoundTrip ==
    (pc \in {"returned", "raised"} /\ call[1] = "get_heading") =>
        LET l == call[2]
            wellformed == /\ \E n \in 1..Len(l) :
                                 /\ l[n] = " "
                                 /\ n >= 2
                                 /\ \A j \in 1..(n - 1) : l[j] = "#"
        IN  /\ wellformed <=> pc = "returned"
            /\ pc = "returned" =>
                   /\ result[1] = "return"
                   /\ make_heading(result[2][1], result[2][2]) = l
            /\ pc = "raised" => result = <<"raise", "AssertionError">>

\* C14 witness: get_heading has returned the pair of a heading with two
\* spaces after the "#"
C14_Witness ==
    /\ pc = "returned" /\ call = <<"get_heading", <<"#","#"," "," ","D">>>>
    /\ result = <<"return", <<2, <<" ","D">>>>>>

\* number of leading whitespace characters of l
LeadingWhitespace(l) ==
    Cardinality({n \in 1..Len(l) : \A j \in 1..n : l[j] \in Whitespace})

\* C15: unindent removes from every line exactly the common indent (the
\* least number of leading whitespace characters over the non-empty lines, 0
\* when there is none), removes whitespace only, and returns the lines
\* unchanged when the common indent is 0 or no line is non-empty.
C15_CommonIndentRemoved ==
    (pc = "returned" /\ call[1] = "unindent") =>
        LET ls == call[2]
            nonempty == {k \in 1..Len(ls) : Len(ls[k]) > 0}
            common == IF nonempty = {} THEN 0
                      ELSE Min({LeadingWhitespace(ls[k]) : k \in nonempty})
        IN  /\ Len(result) = Len(ls)
            /\ \A k \in 1..Len(ls) :
                   /\ IsSuffix(result[k], ls[k])
                   /\ k \in nonempty => Len(ls[k]) - Len(result[k]) = common
                   /\ k \notin nonempty => result[k] = <<>>
                   /\ \A j \in 1..(Len(ls[k]) - Len(result[k])) :
                          ls[k][j] \in Whitespace
            /\ common = 0 => result = ls
            /\ nonempty = {} => result = ls

\* C15 witness: a whitespace-only line set the common indent of a block
C15_Witness ==
    /\ pc = "returned" /\ call[1] = "unindent"
    /\ call[2] = <<<<" ">>, <<" "," ","x"," ","y">>, <<>> >>
    /\ result = << <<>>, <<" ","x"," ","y">>, <<>> >>

\* C18 (as claimed): the title of every pair get_heading returns, and of
\* every entry of the section list find_sections returns, does not start
\* with "#".
C18_TitleNeverStartsWithHash ==
    /\ (pc = "returned" /\ call[1] = "get_heading") =>
           ~startswith(result[2][2], <<"#">>)
    /\ (pc = "returned" /\ call[1] = "find_sections") =>
           \A k \in 1..Len(result[2]) : ~startswith(result[2][k][2], <<"#">>)

\* least number of leading whitespace characters over the non-empty lines
CommonIndent(ls) ==
    LET nonempty == {k \in 1..Len(ls) : Len(ls[k]) > 0}
    IN  IF nonempty = {} THEN 0
        ELSE Min({LeadingWhitespace(ls[k]) : k \in nonempty})

\* C19 (as claimed): a flushed block, bash or python, is emitted between a
\* fence with the tag of its language and a bare closing fence, and each
\* line between the fences has lost the common leading whitespace of the
\* block.
C19_BlockNormalized ==
    (pc = "returned" /\ call[1] = "doc_code_block") =>
        LET n == Len(call[2])
            common == CommonIndent(call[2])
        IN  /\ Len(result) = n + 2
            /\ result[1] = <<Backtick,Backtick,Backtick>> \o call[3]
            /\ call[3] \in {<<"b","a","s","h">>, <<"p","y","t","h","o","n">>}
            /\ result[n + 2] = <<Backtick,Backtick,Backtick>>
            /\ \A k \in 1..n :
                   IsSuffix(result[k + 1], DropFirst(call[2][k], common))

\* a docstring of one non-empty line that is no heading, no trigger of a
\* block and no directive
OneLineDocstring ==
    /\ Len(text) = 1 /\ text[1] # <<>>
    /\ ~is_heading(text[1]) /\ ~IsTrigger(text[1]) /\ ~IsDirective(text[1])
    /\ ~startswith(lstrip(text[1]), <<":">>)

FirstField(ls) ==
    Min({k \in 1..(Len(ls) + 1) :
            k = Len(ls) + 1 \/ startswith(lstrip(ls[k]), <<":">>)})

\* the lines of the docstring that do not end up between fences: the leading
\* text and, of the lines given to _doc2md, those in no block
OutsideFences(ls) ==
    SubSeq(ls, 1, FirstField(ls) - 1)
        \o ProseFrom(SubSeq(ls, FirstField(ls), Len(ls)), 1)

\* C20 (as claimed): in doc2md the lines that end up inside a fenced block
\* have no part in the sections: the level-1 error is raised only for a
\* level-1 heading outside the fences, the shift is computed from the
\* headings outside the fences, and the section list is, in order, these
\* headings with the shift added, each emitted outside any fence.
C20_FencedLinesNoSections ==
    LET hs == HeadingsFrom(OutsideFences(text), 1)
        least == Min({hs[k][1] : k \in 1..Len(hs)})
    IN  /\ (pc = "raised" /\ sections = None) =>
               \E k \in 1..Len(hs) : hs[k][1] = 1
        /\ pc \in {"title", "lead", "return", "returned"} =>
               /\ shiftlevel = IF hs # <<>> /\ min_level - least > 0
                               THEN min_level - least ELSE 0
               /\ sections = [k \in 1..Len(hs) |->
                                 <<hs[k][1] + shiftlevel, hs[k][2]>>]
        /\ pc \in {"return", "returned"} =>
               LET out == HeadingsFrom(UnfencedFrom(Tail(doc), 1, FALSE), 1)
               IN  /\ Len(out) = Len(sections)
                   /\ \A k \in 1..Len(out) : out[k][2] = sections[k][2]
====
